---- MODULE Spec2Model ----
(*****************************************************************************)
(* Model of src/components/WeatherApp.tsx: the WeatherApp React component.   *)
(*                                                                           *)
(* The component's state is its five useState cells.  Every handler and      *)
(* every continuation of an async function (the code after an await) is      *)
(* one action: JavaScript runs each of them to completion, and other         *)
(* handlers run only at the awaits.  The try/catch/finally that follows a    *)
(* resumed await runs in the same action as the resumption.                  *)
(*                                                                           *)
(* The environment is the user (typing, submitting), the browser's           *)
(* geolocation service and the weather API.  A fetch settles with an OK or   *)
(* a non-OK response; the body of an OK response is read by a second await   *)
(* (response.json()).  A fetch or a json() that rejects takes the path of    *)
(* the non-OK response with the rejection's own message, and is not          *)
(* modelled as a separate outcome.                                           *)
(*                                                                           *)
(* The variables nSubmit, last, overlapped and disturbed, and the fields res *)
(* and runs of geo, are history variables: no action reads them to decide    *)
(* what the component does (nSubmit only bounds the number of submits).      *)
(*****************************************************************************)
EXTENDS Integers, Sequences, FiniteSets, TLC

\* ---------------------------------------------------------------- bounds

\* Number of form submissions the user makes (blank ones included).
MaxSubmits == 2

\* ------------------------------------------------------------ environment

\* What the user types, as sequences of characters: nothing, a space, the city
\* "b".  The city "a" is the one the geolocation flow puts into the field.
Inputs == {<<>>, <<" ">>, <<"b">>}

\* location.name values the API returns for a coordinate query.
LocNames == {<<"a">>}

\* The query string of the coordinate request, `${latitude},${longitude}`.
Coords == <<"@">>

Outcomes == {"ok", "notok"}

\* ------------------------------------------------------------ option type

Null == <<>>
Some(x) == <<x>>

\* ---------------------------------------------------------- error strings

CityNotFound == "City not found! Please Try Again."
ForecastFailed == "Unable to fetch forecast data."
EnterCity == "Please enter a city."
LocationDataFailed == "Unable to fetch location data."
LocationFailed == "Unable to retrieve your location."
GeoUnsupported == "Geolocation is not supported by this browser."

\* ------------------------------------------------------------------ state

VARIABLES
  city,          \* useState<string>("")
  weatherData,   \* useState<WeatherData | null>(null)
  forecastData,  \* useState<ForecastData | null>(null)
  loading,       \* useState<boolean>(false)
  error,         \* useState<string | null>(null)
  geoSupported,  \* whether navigator.geolocation is defined
  geo,           \* position of the mount effect and its geolocation callback
  chains,        \* the fetchWeatherData invocations, in call order
  net,           \* requests issued and not yet consumed or abandoned
  nSubmit,       \* history: number of handleSubmit calls
  last,          \* history: the most recent submit of a non-blank city
  overlapped,    \* history: a chain was started while a request was outstanding
  disturbed      \* history: a blank submit or a position error came while a request was outstanding

vars == <<city, weatherData, forecastData, loading, error, geoSupported, geo,
          chains, net, nSubmit, last, overlapped, disturbed>>

\* ---------------------------------------------------------- pure helpers

\* String.prototype.trim on the modelled alphabet (" " is the only whitespace).
RECURSIVE TrimStart(_)
TrimStart(s) ==
  IF s # <<>> /\ Head(s) = " " THEN TrimStart(Tail(s)) ELSE s

RECURSIVE TrimEnd(_)
TrimEnd(s) ==
  IF s # <<>> /\ s[Len(s)] = " " THEN TrimEnd(SubSeq(s, 1, Len(s) - 1)) ELSE s

Trim(s) == TrimEnd(TrimStart(s))

\* The parsed body of an OK current.json response to query q.
WeatherBody(q, name) == [q |-> q, name |-> name]

\* The parsed body of an OK forecast.json response to query q.
ForecastBody(q) == [q |-> q]

\* ------------------------------------------------------------ predicates

\* A network request is outstanding.
Busy == net # {}

\* Nothing is pending: no request and no geolocation callback.
Quiescent == net = {} /\ geo.pc = "done"

\* ---------------------------------------------------------------- render

ShowLoader == loading
ShowError == error # Null
ShowWeather == error = Null /\ weatherData # Null
ShowForecast == ShowWeather /\ forecastData # Null

\* ------------------------------------------------------------------- init

Init ==
  /\ city = <<>>
  /\ weatherData = Null
  /\ forecastData = Null
  /\ loading = FALSE
  /\ error = Null
  /\ geoSupported \in BOOLEAN
  /\ geo = [pc |-> "mount", res |-> "none", name |-> <<>>, runs |-> 0]
  /\ chains = <<>>
  /\ net = {}
  /\ nSubmit = 0
  /\ last = [i |-> 0, q |-> <<>>, quiet |-> FALSE, clean |-> FALSE, res |-> "none"]
  /\ overlapped = FALSE
  /\ disturbed = FALSE

\* --------------------------------------------------------- fetchWeatherData

\* The request fetch(currentWeatherUrl) of chain i.
CurrentRequest(i, q) == [id |-> i, kind |-> "current", q |-> q]

\* The request fetch(forecastUrl) of chain i.
ForecastRequest(i, q) == [id |-> i, kind |-> "forecast", q |-> q]

\* Mutant: both requests issued at once instead of one after the other.
FirstRequestsBoth(i, q) == {CurrentRequest(i, q), ForecastRequest(i, q)}

\* The requests a chain issues before its first await.
FirstRequests(i, q) == {CurrentRequest(i, q)}

\* Mutant: the call of setLoading(true) forgotten.
FetchWeatherDataStartNoLoading(cityName, caller, read) ==
  LET i == Len(chains) + 1 IN
  /\ loading' = loading
  /\ error' = Null
  /\ chains' = Append(chains, [q |-> cityName, caller |-> caller, pc |-> "fetchW"])
  /\ net' = (net \ read) \cup FirstRequests(i, cityName)

\* fetchWeatherData(cityName), up to its first await: setLoading(true),
\* setError(null), fetch(currentWeatherUrl).  The caller assigns the other
\* cells; read is the request whose body the caller has just finished reading.
FetchWeatherDataStart(cityName, caller, read) ==
  LET i == Len(chains) + 1 IN
  /\ loading' = TRUE
  /\ error' = Null
  /\ chains' = Append(chains, [q |-> cityName, caller |-> caller, pc |-> "fetchW"])
  /\ net' = (net \ read) \cup FirstRequests(i, cityName)

\* Mutant: the catch block forgets setWeatherData(null).
FetchCatchKeepWeather(msg) ==
  /\ error' = Some(msg)
  /\ weatherData' = weatherData
  /\ forecastData' = Null

\* Mutant: the catch block only reports the error.
FetchCatchKeepData(msg) ==
  /\ error' = Some(msg)
  /\ weatherData' = weatherData
  /\ forecastData' = forecastData

\* The catch block of fetchWeatherData.
FetchCatch(msg) ==
  /\ error' = Some(msg)
  /\ weatherData' = Null
  /\ forecastData' = Null

\* The finally block of fetchWeatherData, and the return to the caller: a chain
\* awaited by the geolocation callback resumes it, whose own finally block runs
\* in the same turn of the microtask queue.
FetchFinally(i, res) ==
  /\ loading' = FALSE
  /\ geo' = IF chains[i].caller = "geo" THEN [geo EXCEPT !.pc = "done", !.res = res] ELSE geo
  /\ last' = IF last.i = i THEN [last EXCEPT !.res = res] ELSE last

\* A returned invocation keeps no locals.
Returned == [q |-> <<>>, caller |-> "none", pc |-> "done"]

\* await fetch(currentWeatherUrl) settles.
WeatherResponse(i, outcome) ==
  /\ i \in 1..Len(chains)
  /\ chains[i].pc = "fetchW"
  /\ CurrentRequest(i, chains[i].q) \in net
  /\ IF outcome = "ok"
     THEN /\ chains' = [chains EXCEPT ![i].pc = "jsonW"]
          /\ UNCHANGED <<net, weatherData, forecastData, loading, error, geo, last>>
     ELSE /\ chains' = [chains EXCEPT ![i] = Returned]
          /\ net' = net \ {CurrentRequest(i, chains[i].q)}
          /\ FetchCatch(CityNotFound)
          /\ FetchFinally(i, "weatherFailed")
  /\ UNCHANGED <<city, geoSupported, nSubmit, overlapped, disturbed>>

\* Mutant: the call of setWeatherData forgotten.
WeatherJsonNoStore(i) ==
  /\ i \in 1..Len(chains)
  /\ chains[i].pc = "jsonW"
  /\ chains' = [chains EXCEPT ![i].pc = "fetchF"]
  /\ net' = (net \ {CurrentRequest(i, chains[i].q)}) \cup {ForecastRequest(i, chains[i].q)}
  /\ UNCHANGED <<city, weatherData, forecastData, loading, error, geoSupported, geo, nSubmit,
                 last, overlapped, disturbed>>

\* await weatherResponse.json() resolves: setWeatherData, fetch(forecastUrl).
WeatherJson(i) ==
  /\ i \in 1..Len(chains)
  /\ chains[i].pc = "jsonW"
  /\ weatherData' = Some(WeatherBody(chains[i].q, chains[i].q))
  /\ chains' = [chains EXCEPT ![i].pc = "fetchF"]
  /\ net' = (net \ {CurrentRequest(i, chains[i].q)}) \cup {ForecastRequest(i, chains[i].q)}
  /\ UNCHANGED <<city, forecastData, loading, error, geoSupported, geo, nSubmit, last, overlapped, disturbed>>

\* await fetch(forecastUrl) settles.
ForecastResponse(i, outcome) ==
  /\ i \in 1..Len(chains)
  /\ chains[i].pc = "fetchF"
  /\ ForecastRequest(i, chains[i].q) \in net
  /\ IF outcome = "ok"
     THEN /\ chains' = [chains EXCEPT ![i].pc = "jsonF"]
          /\ UNCHANGED <<net, weatherData, forecastData, loading, error, geo, last>>
     ELSE /\ chains' = [chains EXCEPT ![i] = Returned]
          /\ net' = net \ {ForecastRequest(i, chains[i].q)}
          /\ FetchCatch(ForecastFailed)
          /\ FetchFinally(i, "forecastFailed")
  /\ UNCHANGED <<city, geoSupported, nSubmit, overlapped, disturbed>>

\* Mutant: the call of setForecastData forgotten.
ForecastJsonNoStore(i) ==
  /\ i \in 1..Len(chains)
  /\ chains[i].pc = "jsonF"
  /\ chains' = [chains EXCEPT ![i] = Returned]
  /\ net' = net \ {ForecastRequest(i, chains[i].q)}
  /\ FetchFinally(i, "ok")
  /\ UNCHANGED <<city, weatherData, forecastData, error, geoSupported, nSubmit,
                 overlapped, disturbed>>

\* await forecastResponse.json() resolves: setForecastData, then finally.
ForecastJson(i) ==
  /\ i \in 1..Len(chains)
  /\ chains[i].pc = "jsonF"
  /\ forecastData' = Some(ForecastBody(chains[i].q))
  /\ chains' = [chains EXCEPT ![i] = Returned]
  /\ net' = net \ {ForecastRequest(i, chains[i].q)}
  /\ FetchFinally(i, "ok")
  /\ UNCHANGED <<city, weatherData, error, geoSupported, nSubmit, overlapped, disturbed>>

\* ------------------------------------------------------------- the form

\* onChange of the search field: setCity(e.target.value).  The user acts on the
\* mounted component: React runs the mount effect before it handles an event.
OnChange(text) ==
  /\ geo.pc # "mount"
  /\ city' = text
  /\ UNCHANGED <<weatherData, forecastData, loading, error, geoSupported, geo,
                 chains, net, nSubmit, last, overlapped, disturbed>>

\* Mutant: the test without trim().
IsEmpty(text) == text = <<>>

\* The test of handleSubmit: city.trim() === "".
IsBlank(text) == Trim(text) = <<>>

\* Mutant: the blank branch only reports the error.
SubmitBlankKeepData ==
  /\ error' = Some(EnterCity)
  /\ UNCHANGED <<weatherData, forecastData, city, loading, chains, net>>

\* handleSubmit's branch for a blank city.
SubmitBlank ==
  /\ error' = Some(EnterCity)
  /\ weatherData' = Null
  /\ forecastData' = Null
  /\ UNCHANGED <<city, loading, chains, net>>

\* handleSubmit's branch for a non-blank city: setError(null),
\* fetchWeatherData(city), setCity("").
SubmitCity ==
  /\ FetchWeatherDataStart(city, "submit", {})
  /\ city' = <<>>
  /\ UNCHANGED <<weatherData, forecastData>>

\* handleSubmit, the form's onSubmit.
HandleSubmit ==
  /\ geo.pc # "mount"
  /\ nSubmit < MaxSubmits
  /\ nSubmit' = nSubmit + 1
  /\ overlapped' = (overlapped \/ (Busy /\ ~IsBlank(city)))
  /\ disturbed' = (disturbed \/ (Busy /\ IsBlank(city)))
  /\ last' = IF IsBlank(city)
             THEN [last EXCEPT !.clean = FALSE]
             ELSE [i |-> Len(chains) + 1, q |-> city, quiet |-> Quiescent, clean |-> TRUE,
                   res |-> "none"]
  /\ IF IsBlank(city) THEN SubmitBlank ELSE SubmitCity
  /\ UNCHANGED <<geoSupported, geo>>

\* ------------------------------------------------------- the mount effect

\* Mutant: useEffect without its dependency array, due after every render.
EffectDueEveryRender == TRUE

\* useEffect(..., []): the effect is due after the first render only.
EffectDue == geo.pc = "mount"

\* getUserLocation's branch without navigator.geolocation.
Unsupported ==
  /\ error' = Some(GeoUnsupported)
  /\ weatherData' = Null
  /\ forecastData' = Null

\* The effect: getUserLocation().
GetUserLocation ==
  /\ EffectDue
  /\ IF geoSupported
     THEN /\ geo' = [geo EXCEPT !.pc = "locating", !.runs = @ + 1]
          /\ UNCHANGED <<error, weatherData, forecastData>>
     ELSE /\ geo' = [geo EXCEPT !.pc = "done", !.res = "unsupported", !.runs = @ + 1]
          /\ Unsupported
  /\ UNCHANGED <<city, loading, geoSupported, chains, net, nSubmit, last, overlapped, disturbed>>

\* The success callback of getCurrentPosition, up to its await:
\* setLoading(true), fetch(reverseGeocodeUrl).
PositionSuccess ==
  /\ geo.pc = "locating"
  /\ overlapped' = (overlapped \/ Busy)
  /\ UNCHANGED disturbed
  /\ loading' = TRUE
  /\ net' = net \cup {CurrentRequest(0, Coords)}
  /\ geo' = [geo EXCEPT !.pc = "fetch"]
  /\ UNCHANGED <<city, weatherData, forecastData, error, geoSupported, chains, nSubmit, last>>

\* The error callback of getCurrentPosition.
PositionError ==
  /\ geo.pc = "locating"
  /\ disturbed' = (disturbed \/ Busy)
  /\ UNCHANGED overlapped
  /\ error' = Some(LocationFailed)
  /\ weatherData' = Null
  /\ forecastData' = Null
  /\ geo' = [geo EXCEPT !.pc = "done", !.res = "positionFailed"]
  /\ UNCHANGED <<city, loading, geoSupported, chains, net, nSubmit, last>>

\* Mutant: the success callback without its finally block.
GeoCatchNoFinally(msg) ==
  /\ error' = Some(msg)
  /\ weatherData' = Null
  /\ forecastData' = Null
  /\ loading' = loading

\* The catch and finally blocks of the success callback.
GeoCatch(msg) ==
  /\ error' = Some(msg)
  /\ weatherData' = Null
  /\ forecastData' = Null
  /\ loading' = FALSE

\* await fetch(reverseGeocodeUrl) settles; name is the location.name of the body.
GeoResponse(outcome, name) ==
  /\ geo.pc = "fetch"
  /\ CurrentRequest(0, Coords) \in net
  /\ IF outcome = "ok"
     THEN /\ geo' = [geo EXCEPT !.pc = "json", !.name = name]
          /\ UNCHANGED <<net, weatherData, forecastData, loading, error>>
     ELSE /\ geo' = [geo EXCEPT !.pc = "done", !.res = "locationFailed"]
          /\ net' = net \ {CurrentRequest(0, Coords)}
          /\ GeoCatch(LocationDataFailed)
  /\ UNCHANGED <<city, geoSupported, chains, nSubmit, last, overlapped, disturbed>>

\* await response.json() resolves: setWeatherData(data), setCity(name),
\* fetchWeatherData(name) up to its first await.  The weatherData cell keeps the
\* coordinate response: fetchWeatherData does not assign it before its await.
GeoJson ==
  /\ geo.pc = "json"
  /\ weatherData' = Some(WeatherBody(Coords, geo.name))
  /\ city' = geo.name
  /\ geo' = [geo EXCEPT !.pc = "inner"]
  /\ FetchWeatherDataStart(geo.name, "geo", {CurrentRequest(0, Coords)})
  /\ UNCHANGED <<forecastData, geoSupported, nSubmit, last, overlapped, disturbed>>

\* ------------------------------------------------------------------- next

Next ==
  \/ GetUserLocation
  \/ PositionSuccess
  \/ PositionError
  \/ \E o \in Outcomes, n \in LocNames : GeoResponse(o, n)
  \/ GeoJson
  \/ \E t \in Inputs : OnChange(t)
  \/ HandleSubmit
  \/ \E i \in 1..(MaxSubmits + 1), o \in Outcomes : WeatherResponse(i, o)
  \/ \E i \in 1..(MaxSubmits + 1) : WeatherJson(i)
  \/ \E i \in 1..(MaxSubmits + 1), o \in Outcomes : ForecastResponse(i, o)
  \/ \E i \in 1..(MaxSubmits + 1) : ForecastJson(i)

Spec == Init /\ [][Next]_vars

\* Every fetch settles and every body is read: the requests of a chain are
\* answered once issued.
Settle ==
  \/ \E o \in Outcomes, n \in LocNames : GeoResponse(o, n)
  \/ GeoJson
  \/ \E i \in 1..(MaxSubmits + 1), o \in Outcomes : WeatherResponse(i, o)
  \/ \E i \in 1..(MaxSubmits + 1) : WeatherJson(i)
  \/ \E i \in 1..(MaxSubmits + 1), o \in Outcomes : ForecastResponse(i, o)
  \/ \E i \in 1..(MaxSubmits + 1) : ForecastJson(i)

LiveSpec == Spec /\ WF_vars(Settle)

\* ----------------------------------------------------------------- claims

ChainIds == 1..(MaxSubmits + 1)

Started(i) == i \in 1..Len(chains)

\* The three displayed cells hold the responses to query q.
ShowsDataOf(q) ==
  /\ weatherData = Some(WeatherBody(q, q))
  /\ forecastData = Some(ForecastBody(q))
  /\ error = Null

\* The three displayed cells hold the error message msg and no data.
ShowsError(msg) ==
  /\ error = Some(msg)
  /\ weatherData = Null
  /\ forecastData = Null

\* The most recently submitted city's chain stores its forecast and returns.
LastChainSucceeds ==
  /\ Started(last.i)
  /\ last.quiet
  /\ chains[last.i].pc = "jsonF"
  /\ chains'[last.i].pc = "done"

\* The city submitted last, while nothing was pending, has its chain running
\* and no submit has followed it.
LastChainRunning ==
  /\ Started(last.i)
  /\ last.quiet
  /\ last.clean
  /\ last.res = "none"

\* C1 as stated: a city submitted while nothing is pending, both of whose
\* requests return OK, ends with its data stored, no error and no loader.
C1_Original ==
  [][LastChainSucceeds => (ShowsDataOf(last.q)' /\ loading' = FALSE)]_vars

\* C1 (amended): a city submitted while no request or geolocation callback is
\* pending, with no further submit made before its chain ends and both requests
\* returning OK, ends with weatherData and forecastData holding that city's
\* responses, error null and loading false; and its chain does end unless a
\* submit comes first.
C1_ValidInputRendered ==
  /\ [][(LastChainSucceeds /\ last.clean) => (ShowsDataOf(last.q)' /\ loading' = FALSE)]_vars
  /\ LastChainRunning ~> (~LastChainRunning)

C1_Witness ==
  /\ Started(last.i) /\ last.quiet /\ last.clean
  /\ last.res = "ok"
  /\ ShowsDataOf(last.q)
  /\ loading = FALSE

\* C2: handleSubmit with an empty or whitespace-only city sets error to
\* "Please enter a city.", clears both data cells, issues no request and leaves
\* the city input and the loading flag unchanged.
C2_BlankSubmit ==
  [][(nSubmit' = nSubmit + 1 /\ Trim(city) = <<>>) =>
       /\ error' = Some(EnterCity)
       /\ weatherData' = Null
       /\ forecastData' = Null
       /\ net' = net
       /\ chains' = chains
       /\ city' = city
       /\ loading' = loading]_vars

C2_Witness ==
  /\ nSubmit > 0
  /\ chains = <<>>
  /\ city = <<" ">>
  /\ ShowsError(EnterCity)

\* Chain i is the only one with a request outstanding.
OnlyChain(i) == \A r \in net : r.id = i

\* C3: when a request of a chain returns non-OK and no other chain is
\* outstanding, the chain ends with the message of the failed request in error,
\* with both data cells null (the stored current-weather response included) and
\* with loading false.
C3_FailureSurfaced ==
  [][\A i \in ChainIds :
       (Started(i) /\ OnlyChain(i) /\ chains'[i].pc = "done") =>
         /\ chains[i].pc = "fetchW" =>
              (ShowsError(CityNotFound)' /\ loading' = FALSE /\ net' = {})
         /\ chains[i].pc = "fetchF" =>
              (ShowsError(ForecastFailed)' /\ loading' = FALSE /\ net' = {})]_vars

C3_Witness ==
  /\ last.res = "forecastFailed"
  /\ ShowsError(ForecastFailed)
  /\ loading = FALSE
  /\ net = {}

\* The requests of chain i that are outstanding.
RequestsOf(i) == {r \in net : r.id = i}

\* C4: an accepted submit starts exactly one chain with one current-weather
\* request for the submitted city; a forecast request is issued only when the
\* current-weather request of its chain has returned OK, in place of it; a
\* chain never has two requests outstanding, and a returned chain has none.
C4_SequentialChain ==
  /\ [](\A i \in ChainIds : Started(i) =>
          /\ Cardinality(RequestsOf(i)) <= 1
          /\ chains[i].pc = "done" => RequestsOf(i) = {}
          /\ chains[i].pc \in {"fetchW", "jsonW"} => RequestsOf(i) = {CurrentRequest(i, chains[i].q)}
          /\ chains[i].pc \in {"fetchF", "jsonF"} => RequestsOf(i) = {ForecastRequest(i, chains[i].q)})
  /\ [][/\ (nSubmit' = nSubmit + 1 /\ Trim(city) # <<>>) =>
             /\ Len(chains') = Len(chains) + 1
             /\ net' = net \cup {CurrentRequest(Len(chains'), city)}
             /\ CurrentRequest(Len(chains'), city) \notin net
        /\ \A r \in net' \ net : r.kind = "forecast" =>
             /\ Started(r.id)
             /\ chains[r.id].pc = "jsonW"
             /\ r.q = chains[r.id].q
             /\ CurrentRequest(r.id, r.q) \in net \ net']_vars

C4_Witness ==
  \E r \in net : r.kind = "forecast" /\ chains[r.id].caller = "submit" /\ Len(chains) >= 2

\* C5 as stated: whenever a request is outstanding, loading is true.
C5_Original == Busy => ShowLoader

\* C5 (amended): whenever a request is outstanding, loading is true and the
\* loader is displayed, provided no chain has been started (by a submit or by
\* the geolocation callback) while another request was outstanding.
C5_LoadingGate == (Busy /\ ~overlapped) => ShowLoader

C5_Witness == Busy /\ ~overlapped /\ ShowLoader /\ Len(chains) >= 2

\* The requests issued by a step.
Issued == net' \ net

\* C6: the geolocation flow runs once, on mount; its requests are the
\* coordinate request, then the current-weather request by the returned name
\* once the coordinate response is OK, then the forecast request by that name
\* once that response is OK; the city input is set to the returned name; and
\* when all three succeed and no submit is made, the flow ends with both data
\* cells non-null, error null and loading false.
C6_Startup ==
  /\ [](geo.runs = IF geo.pc = "mount" THEN 0 ELSE 1)
  /\ []((geo.res = "ok" /\ nSubmit = 0) =>
          /\ weatherData # Null /\ forecastData # Null
          /\ weatherData[1].q = forecastData[1].q
          /\ error = Null /\ loading = FALSE)
  /\ [][/\ \A r \in Issued : r.id = 0 => (geo.pc = "locating" /\ r = CurrentRequest(0, Coords))
        /\ \A r \in Issued : (r.id # 0 /\ chains'[r.id].caller = "geo") =>
             IF r.kind = "current"
             THEN /\ geo.pc = "json"
                  /\ r.q = geo.name
                  /\ CurrentRequest(0, Coords) \in net \ net'
             ELSE /\ chains[r.id].pc = "jsonW"
                  /\ r.q = chains[r.id].q
        /\ (geo.pc = "json" /\ geo'.pc # "json") => city' = geo.name]_vars
  /\ (geo.pc = "fetch") ~> (geo.pc = "done")

C6_Witness ==
  /\ geo.res = "ok" /\ nSubmit = 0
  /\ city \in LocNames
  /\ ShowsDataOf(city)
  /\ loading = FALSE

\* C7: each failure of the startup location step reports its message and
\* clears the data without calling fetchWeatherData: without geolocation
\* support and on a position error no request is issued and loading is
\* unchanged; on a non-OK coordinate response loading ends false.
C7_StartupFailure ==
  [][(geo.pc # "done" /\ geo'.pc = "done" /\ geo.pc # "inner") =>
       /\ chains' = chains
       /\ \A i \in ChainIds : Started(i) => chains[i].caller # "geo"
       /\ geo.pc = "mount" =>
            (ShowsError(GeoUnsupported)' /\ net' = net /\ loading' = loading)
       /\ geo.pc = "locating" =>
            (ShowsError(LocationFailed)' /\ net' = net /\ loading' = loading)
       /\ geo.pc = "fetch" =>
            (ShowsError(LocationDataFailed)' /\ Issued = {} /\ loading' = FALSE)]_vars

C7_Witness ==
  /\ geo.res = "locationFailed"
  /\ ShowsError(LocationDataFailed)
  /\ loading = FALSE
  /\ nSubmit > 0

\* What the chain of the most recently submitted city leaves displayed.
LastOutcomeShown ==
  CASE last.res = "ok" -> ShowsDataOf(last.q)
    [] last.res = "weatherFailed" -> ShowsError(CityNotFound)
    [] last.res = "forecastFailed" -> ShowsError(ForecastFailed)

\* C8 as stated: once nothing is pending, the displayed cells are the outcome
\* of the most recent submit, whatever was pending when it was made.
C8_Original ==
  (Quiescent /\ Started(last.i) /\ last.clean) => LastOutcomeShown

\* C8 (amended): once no request or callback is pending, the displayed cells
\* are the outcome of the most recently submitted city (its data if its
\* requests succeeded, its error if one failed), provided that city was
\* submitted while no request or geolocation callback was pending and no blank
\* submit followed it.
C8_LastSubmitShown ==
  (Quiescent /\ Started(last.i) /\ last.clean /\ last.quiet) => LastOutcomeShown

C8_Witness ==
  /\ Quiescent /\ Started(last.i) /\ last.clean /\ last.quiet
  /\ last.i >= 2
  /\ last.res = "ok"
  /\ ShowsDataOf(last.q)

\* C9 as stated: with no request outstanding, a non-null error implies that
\* both data cells are null.
C9_Original ==
  (~Busy /\ error # Null) => (weatherData = Null /\ forecastData = Null)

\* C9 (amended): with no request outstanding, a non-null error implies that
\* both data cells are null, provided no submit (blank or not) and no
\* geolocation callback has come while a request was outstanding.
C9_ErrorExcludesData ==
  (~Busy /\ ~overlapped /\ ~disturbed /\ error # Null) =>
    (weatherData = Null /\ forecastData = Null)

C9_Witness ==
  /\ ~Busy /\ ~overlapped /\ ~disturbed
  /\ error = Some(EnterCity)
  /\ weatherData = Null /\ forecastData = Null
  /\ last.res = "ok"

\* Both data cells hold responses for the same city: the location the
\* current-weather response names is the one the forecast was asked for.
SameQuery == weatherData[1].name = forecastData[1].q

\* C10 as stated: in every state, two non-null data cells hold the responses
\* to the same requested city.
C10_Original ==
  (weatherData # Null /\ forecastData # Null) => SameQuery

\* C10 (amended): in every state with no request outstanding, two non-null
\* data cells hold the responses to the same requested city, provided no chain
\* has been started while another request was outstanding.
C10_SameCity ==
  (~Busy /\ ~overlapped /\ weatherData # Null /\ forecastData # Null) => SameQuery

C10_Witness ==
  /\ ~Busy /\ ~overlapped
  /\ weatherData # Null /\ forecastData # Null
  /\ SameQuery
  /\ Len(chains) >= 2

====
